---- MODULE Spec2Model ----
(* TMA tile copy (tma/tma_copy.h): the host entry point                    *)
(* copy_host_tma_load_and_store_kernel, the kernel copyTMAKernel run by    *)
(* every thread of every thread block of the grid, the transaction         *)
(* barrier in shared memory and the two asynchronous bulk-copy transfers   *)
(* (global -> shared load, shared -> global store) of each block.          *)
EXTENDS Integers, Sequences, FiniteSets, TLC

\* ------------------------------------------------------------------ bounds
\* Largest M and N the host is called with.
MaxDim == 3
\* Largest TILE_M and TILE_N the template is instantiated with.
MaxTile == 2
\* Largest number of iterations.
MaxIter == 2
\* Largest number of thread blocks of one launch.
MaxBlocks == 2
\* Largest THREADS the template is instantiated with.
MaxThreads == 3
\* Lanes per warp in the model (32 on the device).
WarpSize == 2
\* Largest number of thread runs of one call: blocks x THREADS x iterations.
MaxRuns == 6

\* ------------------------------------------------------- program constants
\* using Element = float
SizeofElement == 4
\* mbarrier.init(1 /* arrive count */)
ArriveCount == 1
\* mbarrier.wait(0 /* phase */)
WaitPhase == 0
\* float has a 24 bit significand
FloatDigits == 24

\* Content of shared memory that no one has written yet.
Garbage == -1

VARIABLES
    \* host: copy_host_tma_load_and_store_kernel
    M, N, iterations,          \* arguments
    TILE_M, TILE_N, THREADS,   \* template arguments
    hostPc,                    \* "launch", "sync", "verify", "done", "aborted"
    i,                         \* loop counter
    status,                    \* cutlass::Status of the last launch
    retval,                    \* <<>> until the function returns, then <<value>>
    cerr,                      \* number of diagnostics written to std::cerr
    h_S, h_D, d_S, d_D,        \* host and device vectors
    good, bad,                 \* verification counters
    firstResult,               \* history: <<d_D>> as the first iteration left it
    \* device: one entry per thread block (blockIdx.x, blockIdx.y)
    pc,                        \* pc[b][t]: position of thread t of block b
    lane_predicate,            \* lane_predicate[b][t]: elect_one_sync()
    smem,                      \* shared_storage.smem of block b
    mbarrier,                  \* shared_storage.mbarrier of block b
    tmaLoad,                   \* rows of the tile load still in flight
    tmaStore,                  \* rows of the tile store still in flight
    \* history
    opBy,                      \* opBy[b][op]: threads that performed op
    opCount,                   \* opCount[b][op]: times op was performed
    armedBytes,                \* bytes passed to arrive_and_expect_tx
    txBytes,                   \* bytes the load signalled on the barrier
    written                    \* elements of d_D the store of b has written

hostVars == <<M, N, iterations, TILE_M, TILE_N, THREADS, hostPc, i, status,
              retval, cerr, h_S, h_D, d_S, good, bad, firstResult>>
devVars == <<pc, lane_predicate, smem, mbarrier, tmaLoad, tmaStore>>
histVars == <<opBy, opCount, armedBytes, txBytes, written>>
vars == <<hostVars, d_D, devVars, histVars>>

Ops == {"elect", "prefetch", "init", "arm", "load", "wait", "fence", "store"}

\* ----------------------------------------------------------------- helpers
RECURSIVE Pow2(_)
Pow2(k) == IF k = 0 THEN 1 ELSE 2 * Pow2(k - 1)

RECURSIVE FloatUlp(_)
FloatUlp(k) == IF k < Pow2(FloatDigits) THEN 1 ELSE 2 * FloatUlp(k \div 2)

\* static_cast<Element>(float(i)): the nearest float, ties to even.
ToFloat(k) ==
    LET u == FloatUlp(k)
        q == k \div u
        r == k % u
    IN  IF 2 * r < u THEN q * u
        ELSE IF 2 * r > u THEN (q + 1) * u
        ELSE IF q % 2 = 0 THEN q * u ELSE (q + 1) * u

\* Rounds down instead of up.
ceil_div_floor(a, b) == a \div b

ceil_div(a, b) == (a + b - 1) \div b

\* dim3 gridDim(ceil_div(M, TILE_M), ceil_div(N, TILE_N))
gridDim == <<ceil_div(M, TILE_M), ceil_div(N, TILE_N)>>

GridOf(gd) == (0 .. gd[1] - 1) \X (0 .. gd[2] - 1)

\* The thread blocks of one launch, by (blockIdx.x, blockIdx.y).
Blocks == GridOf(gridDim)

\* dim3 blockDim(THREADS)
Threads == 0 .. THREADS - 1

\* make_layout(tensor_shape, LayoutRight{})
gmemLayout(m, n) == m * N + n

\* make_layout(tileShape, LayoutRight{})
smemLayout(r, c) == r * TILE_N + c

\* size(SmemLayout{})
SmemSize == TILE_M * TILE_N

\* cutlass::canonical_warp_idx_sync()
warp_idx(t) == t \div WarpSize

\* make_coord(blockIdx.x, blockIdx.y)
blkCoord(b) == <<b[1], b[2]>>

\* make_shape(bM{}, bN{})
tileShape == <<TILE_M, TILE_N>>

\* Steps by the extent of the other mode of the tile.
local_tile_swapped(shape, coord, r, c) ==
    <<coord[1] * shape[2] + r, coord[2] * shape[1] + c>>

\* local_tile(mS, tileShape, blkCoord): the global coordinate of element
\* (r, c) of the tile at coordinate coord.
local_tile(shape, coord, r, c) ==
    <<coord[1] * shape[1] + r, coord[2] * shape[2] + c>>

InBounds(g) == g[1] < M /\ g[2] < N

\* Expects the bytes of one row of the tile only.
kTmaTransactionBytesOneRow == SizeofElement * TILE_N

\* Counts the elements of the tile, not their bytes.
kTmaTransactionBytesElements == SmemSize

\* sizeof(ArrayEngine<Element, size(SmemLayout{})>)
kTmaTransactionBytes == SizeofElement * SmemSize

\* Bytes one row of the box signals on the barrier (complete_tx).
RowBytes == SizeofElement * TILE_N

\* Without the test of warp_idx: the elected lane of every warp.
IsLeaderAnyWarp(b, t) == lane_predicate[b][t]

\* warp_idx == 0 && lane_predicate
IsLeader(b, t) == warp_idx(t) = 0 /\ lane_predicate[b][t]

\* The load issued before the barrier is armed.
KernelNextLoadFirst(p, leader) ==
    CASE p = "elect"    -> "prefetch"
      [] p = "prefetch" -> IF leader THEN "init" ELSE "sync"
      [] p = "init"     -> "load"
      [] p = "load"     -> "arm"
      [] p = "arm"      -> "sync"
      [] p = "sync"     -> "wait"
      [] p = "wait"     -> "fence"
      [] p = "fence"    -> IF leader THEN "store" ELSE "done"
      [] p = "store"    -> "done"

\* The elected thread goes on without prefetching the descriptors.
KernelNextNoPrefetch(p, leader) ==
    CASE p = "elect"    -> IF leader THEN "init" ELSE "prefetch"
      [] p = "prefetch" -> IF leader THEN "init" ELSE "sync"
      [] p = "init"     -> "arm"
      [] p = "arm"      -> "load"
      [] p = "load"     -> "sync"
      [] p = "sync"     -> "wait"
      [] p = "wait"     -> "fence"
      [] p = "fence"    -> IF leader THEN "store" ELSE "done"
      [] p = "store"    -> "done"

\* The statements of copyTMAKernel in program order, for the elected thread
\* of warp 0 and for every other thread.
KernelNext(p, leader) ==
    CASE p = "elect"    -> "prefetch"
      [] p = "prefetch" -> IF leader THEN "init" ELSE "sync"
      [] p = "init"     -> "arm"
      [] p = "arm"      -> "load"
      [] p = "load"     -> "sync"
      [] p = "sync"     -> "wait"
      [] p = "wait"     -> "fence"
      [] p = "fence"    -> IF leader THEN "store" ELSE "done"
      [] p = "store"    -> "done"

BeforeSync == {"elect", "prefetch", "init", "arm", "load"}

\* ------------------------------------------------------ transaction barrier
UninitBarrier == [valid |-> FALSE, phase |-> 0, pending |-> 0, expected |-> 0, tx |-> 0]

\* A phase completes when no arrival and no transaction byte is pending.
Complete(bar) ==
    IF bar.valid /\ bar.pending = 0 /\ bar.tx = 0
    THEN [bar EXCEPT !.phase = 1 - bar.phase, !.pending = bar.expected]
    ELSE bar

\* ClusterBarrier::init(arrive_count)
BarrierInit(count) ==
    [valid |-> TRUE, phase |-> 0, pending |-> count, expected |-> count, tx |-> 0]

\* ClusterTransactionBarrier::arrive_and_expect_tx(bytes)
BarrierArriveAndExpectTx(bar, bytes) ==
    IF bar.valid
    THEN Complete([bar EXCEPT !.tx = bar.tx + bytes, !.pending = bar.pending - 1])
    ELSE bar

\* complete_tx by the copy engine
BarrierCompleteTx(bar, bytes) ==
    IF bar.valid THEN Complete([bar EXCEPT !.tx = bar.tx - bytes]) ELSE bar

\* Waits on the other parity.
BarrierWaitDoneWrongParity(bar, phase) == ~bar.valid \/ bar.phase = phase

\* ClusterBarrier::wait(phase) returns once the phase of that parity is over;
\* on a barrier that was never initialized anything can happen.
BarrierWaitDone(bar, phase) == ~bar.valid \/ bar.phase # phase

\* -------------------------------------------------------------------- Init
\* Elections of one lane per warp: elect_one_sync() is true for exactly one
\* thread of every warp.
Elections(th) ==
    {e \in [0 .. th - 1 -> BOOLEAN] :
        \A w \in 0 .. (th - 1) \div WarpSize :
            Cardinality({t \in 0 .. th - 1 : t \div WarpSize = w /\ e[t]}) = 1}

Init ==
    \E m \in 0 .. MaxDim, n \in 0 .. MaxDim, tm \in 1 .. MaxTile,
       tn \in 1 .. MaxTile, th \in 1 .. MaxThreads, it \in 1 .. MaxIter :
        LET gd == <<ceil_div(m, tm), ceil_div(n, tn)>>
            G == GridOf(gd)
        IN  /\ Cardinality(G) <= MaxBlocks
            /\ Cardinality(G) = 1 \/ th = 1
            /\ Cardinality(G) * th * it <= MaxRuns
            /\ M = m /\ N = n /\ iterations = it
            /\ TILE_M = tm /\ TILE_N = tn /\ THREADS = th
            /\ hostPc = "launch" /\ i = 0 /\ status = "none"
            /\ retval = <<>> /\ cerr = 0
            /\ h_S = [k \in 0 .. m * n - 1 |-> ToFloat(k)]
            /\ h_D = [k \in 0 .. m * n - 1 |-> 0]
            /\ d_S = [k \in 0 .. m * n - 1 |-> ToFloat(k)]
            /\ d_D = [k \in 0 .. m * n - 1 |-> 0]
            /\ good = 0 /\ bad = 0 /\ firstResult = <<>>
            /\ pc = [b \in G |-> [t \in 0 .. th - 1 |-> "none"]]
            /\ lane_predicate = [b \in G |-> [t \in 0 .. th - 1 |-> FALSE]]
            /\ smem = [b \in G |-> [k \in 0 .. tm * tn - 1 |-> Garbage]]
            /\ mbarrier = [b \in G |-> UninitBarrier]
            /\ tmaLoad = [b \in G |-> {}]
            /\ tmaStore = [b \in G |-> {}]
            /\ opBy = [b \in G |-> [o \in Ops |-> {}]]
            /\ opCount = [b \in G |-> [o \in Ops |-> 0]]
            /\ armedBytes = [b \in G |-> 0]
            /\ txBytes = [b \in G |-> 0]
            /\ written = [b \in G |-> {}]

\* ------------------------------------------------------------------- host
\* Waits for the threads only, not for the bulk copies in flight.
QuiescentThreadsOnly ==
    \A b \in Blocks : \A t \in Threads : pc[b][t] \in {"none", "done"}

\* cudaDeviceSynchronize(): every block has run to its end and no bulk copy
\* is in flight.
Quiescent ==
    \A b \in Blocks :
        /\ \A t \in Threads : pc[b][t] \in {"none", "done"}
        /\ tmaLoad[b] = {} /\ tmaStore[b] = {}

\* make_tma_copy(SM90_TMA_LOAD{}, tensor_S, smem_layout) on a tensor with an
\* extent of 0: the descriptor cannot be encoded, which a build with
\* assertions answers by aborting the process; a build without them goes on
\* to the launch.
MakeTmaCopyAbort ==
    /\ hostPc = "launch" /\ i = 0
    /\ M = 0 \/ N = 0
    /\ hostPc' = "aborted"
    /\ UNCHANGED <<M, N, iterations, TILE_M, TILE_N, THREADS, i, status, retval,
                   cerr, h_S, h_D, d_S, good, bad, firstResult, d_D, devVars,
                   histVars>>

\* cutlass::launch_kernel_on_cluster(launch_params, kernel, params): the
\* device accepts the launch and every block of gridDim starts the kernel.
\* Shared memory keeps whatever the previous launch left in it.
Launch ==
    /\ hostPc = "launch"
    /\ Blocks # {}
    /\ \E e \in [Blocks -> Elections(THREADS)] : lane_predicate' = e
    /\ pc' = [b \in Blocks |-> [t \in Threads |-> "elect"]]
    /\ status' = "kSuccess"
    /\ hostPc' = "sync"
    /\ opBy' = [b \in Blocks |-> [o \in Ops |-> {}]]
    /\ opCount' = [b \in Blocks |-> [o \in Ops |-> 0]]
    /\ armedBytes' = [b \in Blocks |-> 0]
    /\ txBytes' = [b \in Blocks |-> 0]
    /\ written' = [b \in Blocks |-> {}]
    /\ UNCHANGED <<M, N, iterations, TILE_M, TILE_N, THREADS, i, retval, cerr,
                   h_S, h_D, d_S, d_D, good, bad, firstResult, smem, mbarrier,
                   tmaLoad, tmaStore>>

\* The device rejects the launch: no block runs, the status is not looked at.
LaunchRejected ==
    /\ hostPc = "launch"
    /\ status' = "kErrorInternal"
    /\ hostPc' = "sync"
    /\ pc' = [b \in Blocks |-> [t \in Threads |-> "none"]]
    /\ opBy' = [b \in Blocks |-> [o \in Ops |-> {}]]
    /\ opCount' = [b \in Blocks |-> [o \in Ops |-> 0]]
    /\ armedBytes' = [b \in Blocks |-> 0]
    /\ txBytes' = [b \in Blocks |-> 0]
    /\ written' = [b \in Blocks |-> {}]
    /\ UNCHANGED <<M, N, iterations, TILE_M, TILE_N, THREADS, i, retval, cerr,
                   h_S, h_D, d_S, d_D, good, bad, firstResult, lane_predicate,
                   smem, mbarrier, tmaLoad, tmaStore>>

\* cudaDeviceSynchronize() returns cudaSuccess once every block has run to
\* its end and no bulk copy is in flight; then the loop goes on.
Synchronize ==
    /\ hostPc = "sync"
    /\ Quiescent
    /\ i' = i + 1
    /\ hostPc' = IF i + 1 < iterations THEN "launch" ELSE "verify"
    /\ firstResult' = IF i = 0 THEN <<d_D>> ELSE firstResult
    /\ UNCHANGED <<M, N, iterations, TILE_M, TILE_N, THREADS, status, retval,
                   cerr, h_S, h_D, d_S, good, bad, d_D, devVars, histVars>>

\* Writes the error string and goes on with the loop instead of returning.
SynchronizeFaultContinues ==
    /\ hostPc = "sync"
    /\ Quiescent
    /\ cerr' = cerr + 1
    /\ i' = i + 1
    /\ hostPc' = IF i + 1 < iterations THEN "launch" ELSE "verify"
    /\ firstResult' = IF i = 0 THEN <<d_D>> ELSE firstResult
    /\ UNCHANGED <<M, N, iterations, TILE_M, TILE_N, THREADS, status, retval,
                   h_S, h_D, d_S, good, bad, d_D, devVars, histVars>>

\* cudaDeviceSynchronize() reports a fault of the device: the error string
\* goes to std::cerr and the function returns -1. The grid is gone and what
\* it left on the chip is of no account any more.
SynchronizeFault ==
    /\ hostPc = "sync"
    /\ cerr' = cerr + 1
    /\ retval' = <<-1>>
    /\ hostPc' = "done"
    /\ pc' = [b \in Blocks |-> [t \in Threads |-> "none"]]
    /\ tmaLoad' = [b \in Blocks |-> {}]
    /\ tmaStore' = [b \in Blocks |-> {}]
    /\ lane_predicate' = [b \in Blocks |-> [t \in Threads |-> FALSE]]
    /\ smem' = [b \in Blocks |-> [k \in 0 .. SmemSize - 1 |-> Garbage]]
    /\ mbarrier' = [b \in Blocks |-> UninitBarrier]
    /\ opBy' = [b \in Blocks |-> [o \in Ops |-> {}]]
    /\ opCount' = [b \in Blocks |-> [o \in Ops |-> 0]]
    /\ armedBytes' = [b \in Blocks |-> 0]
    /\ txBytes' = [b \in Blocks |-> 0]
    /\ written' = [b \in Blocks |-> {}]
    /\ UNCHANGED <<M, N, iterations, TILE_M, TILE_N, THREADS, i, status, h_S,
                   h_D, d_S, good, bad, firstResult, d_D>>

\* The copy after the loop goes the other way: d_S = h_D.
VerifyIntoSource ==
    /\ hostPc = "verify"
    /\ d_S' = h_D
    /\ good' = Cardinality({k \in DOMAIN d_D : h_D[k] = h_S[k]})
    /\ bad' = Cardinality({k \in DOMAIN d_D : h_D[k] # h_S[k]})
    /\ retval' = <<0>>
    /\ hostPc' = "done"
    /\ UNCHANGED <<M, N, iterations, TILE_M, TILE_N, THREADS, i, status, cerr,
                   h_S, h_D, firstResult, d_D, devVars, histVars>>

\* h_D = d_D, the comparison loop, return 0
Verify ==
    /\ hostPc = "verify"
    /\ h_D' = d_D
    /\ good' = Cardinality({k \in DOMAIN d_D : d_D[k] = h_S[k]})
    /\ bad' = Cardinality({k \in DOMAIN d_D : d_D[k] # h_S[k]})
    /\ retval' = <<0>>
    /\ hostPc' = "done"
    /\ UNCHANGED <<M, N, iterations, TILE_M, TILE_N, THREADS, i, status, cerr,
                   h_S, d_S, firstResult, d_D, devVars, histVars>>

\* ----------------------------------------------------------------- kernel
Goto(b, t) ==
    pc' = [pc EXCEPT ![b][t] = KernelNext(pc[b][t], IsLeader(b, t))]

Did(b, t, o) ==
    /\ opBy' = [opBy EXCEPT ![b][o] = @ \cup {t}]
    /\ opCount' = [opCount EXCEPT ![b][o] = @ + 1]

\* warp_idx = canonical_warp_idx_sync(); lane_predicate = elect_one_sync():
\* the thread learns whether it is the elected lane of its warp.
Elect(b, t) ==
    /\ pc[b][t] = "elect"
    /\ Goto(b, t)
    /\ Did(b, t, "elect")
    /\ UNCHANGED <<hostVars, d_D, lane_predicate, smem, mbarrier, tmaLoad,
                   tmaStore, armedBytes, txBytes, written>>

\* if (warp_idx == 0 && lane_predicate) prefetch_tma_descriptor(...) twice;
\* every other thread goes on to __syncthreads().
Prefetch(b, t) ==
    /\ pc[b][t] = "prefetch"
    /\ Goto(b, t)
    /\ IF IsLeader(b, t)
       THEN Did(b, t, "prefetch")
       ELSE UNCHANGED <<opBy, opCount>>
    /\ UNCHANGED <<hostVars, d_D, lane_predicate, smem, mbarrier, tmaLoad,
                   tmaStore, armedBytes, txBytes, written>>

\* mbarrier.init(1 /* arrive count */)
MbarrierInit(b, t) ==
    /\ pc[b][t] = "init"
    /\ Goto(b, t)
    /\ mbarrier' = [mbarrier EXCEPT ![b] = BarrierInit(ArriveCount)]
    /\ Did(b, t, "init")
    /\ UNCHANGED <<hostVars, d_D, lane_predicate, smem, tmaLoad, tmaStore,
                   armedBytes, txBytes, written>>

\* mbarrier.arrive_and_expect_tx(kTmaTransactionBytes)
ArriveAndExpectTx(b, t) ==
    /\ pc[b][t] = "arm"
    /\ Goto(b, t)
    /\ mbarrier' = [mbarrier EXCEPT
                      ![b] = BarrierArriveAndExpectTx(@, kTmaTransactionBytes)]
    /\ armedBytes' = [armedBytes EXCEPT ![b] = @ + kTmaTransactionBytes]
    /\ Did(b, t, "arm")
    /\ UNCHANGED <<hostVars, d_D, lane_predicate, smem, tmaLoad, tmaStore,
                   txBytes, written>>

\* copy(tmaLoad.with(mbarrier), gS, sS): hands the box to the copy engine
\* and returns.
IssueLoad(b, t) ==
    /\ pc[b][t] = "load"
    /\ Goto(b, t)
    /\ tmaLoad' = [tmaLoad EXCEPT ![b] = @ \cup (0 .. TILE_M - 1)]
    /\ Did(b, t, "load")
    /\ UNCHANGED <<hostVars, d_D, lane_predicate, smem, mbarrier, tmaStore,
                   armedBytes, txBytes, written>>

\* No __syncthreads() at all.
SyncthreadsOpenAlways(b) == TRUE

\* __syncthreads(): a thread leaves once every thread of the block is there.
SyncthreadsOpen(b) == \A t \in Threads : pc[b][t] \notin BeforeSync

Syncthreads(b, t) ==
    /\ pc[b][t] = "sync"
    /\ SyncthreadsOpen(b)
    /\ Goto(b, t)
    /\ UNCHANGED <<hostVars, d_D, lane_predicate, smem, mbarrier, tmaLoad,
                   tmaStore, histVars>>

\* mbarrier.wait(0 /* phase */)
Wait(b, t) ==
    /\ pc[b][t] = "wait"
    /\ BarrierWaitDone(mbarrier[b], WaitPhase)
    /\ Goto(b, t)
    /\ Did(b, t, "wait")
    /\ UNCHANGED <<hostVars, d_D, lane_predicate, smem, mbarrier, tmaLoad,
                   tmaStore, armedBytes, txBytes, written>>

\* cutlass::arch::fence_view_async_shared(); every thread but the elected one
\* then leaves the kernel.
Fence(b, t) ==
    /\ pc[b][t] = "fence"
    /\ Goto(b, t)
    /\ Did(b, t, "fence")
    /\ UNCHANGED <<hostVars, d_D, lane_predicate, smem, mbarrier, tmaLoad,
                   tmaStore, armedBytes, txBytes, written>>

\* cute::copy(tmaStore, sS, gD): hands the box to the copy engine; the
\* thread leaves the kernel without tma_store_arrive / tma_store_wait.
IssueStore(b, t) ==
    /\ pc[b][t] = "store"
    /\ Goto(b, t)
    /\ tmaStore' = [tmaStore EXCEPT ![b] = @ \cup (0 .. TILE_M - 1)]
    /\ Did(b, t, "store")
    /\ UNCHANGED <<hostVars, d_D, lane_predicate, smem, mbarrier, tmaLoad,
                   armedBytes, txBytes, written>>

\* ------------------------------------------------------------ copy engine
\* SM90_TMA_LOAD: the engine moves the box row by row. Row r lands in
\* shared memory, elements outside the tensor are filled with zero, and the
\* bytes of the whole row are signalled on the barrier.
LoadedRow(b, r) ==
    [k \in 0 .. SmemSize - 1 |->
        IF k \div TILE_N = r
        THEN LET g == local_tile(tileShape, blkCoord(b), r, k % TILE_N)
             IN  IF InBounds(g) THEN d_S[gmemLayout(g[1], g[2])] ELSE 0
        ELSE smem[b][k]]

TmaLoadRow(b, r) ==
    /\ r \in tmaLoad[b]
    /\ \A q \in tmaLoad[b] : r <= q
    /\ tmaLoad' = [tmaLoad EXCEPT ![b] = @ \ {r}]
    /\ smem' = [smem EXCEPT ![b] = LoadedRow(b, r)]
    /\ mbarrier' = [mbarrier EXCEPT ![b] = BarrierCompleteTx(@, RowBytes)]
    /\ txBytes' = [txBytes EXCEPT ![b] = @ + RowBytes]
    /\ UNCHANGED <<hostVars, d_D, pc, lane_predicate, tmaStore, opBy, opCount,
                   armedBytes, written>>

\* SM90_TMA_STORE: the engine moves the box row by row. Row r is read from
\* shared memory and written to the tensor; elements outside the tensor are
\* not written.
StoredElems(b, r) ==
    {c \in 0 .. TILE_N - 1 :
        InBounds(local_tile(tileShape, blkCoord(b), r, c))}

\* Every block writes the tile at coordinate (0, 0).
StoreTargetSameTile(b, r, c) ==
    LET g == local_tile(tileShape, <<0, 0>>, r, c)
    IN  gmemLayout(g[1], g[2])

StoreTarget(b, r, c) ==
    LET g == local_tile(tileShape, blkCoord(b), r, c)
    IN  gmemLayout(g[1], g[2])

TmaStoreRow(b, r) ==
    /\ r \in tmaStore[b]
    /\ \A q \in tmaStore[b] : r <= q
    /\ tmaStore' = [tmaStore EXCEPT ![b] = @ \ {r}]
    /\ d_D' = [k \in DOMAIN d_D |->
                 IF \E c \in StoredElems(b, r) : StoreTarget(b, r, c) = k
                 THEN LET c == CHOOSE c \in StoredElems(b, r) :
                                   StoreTarget(b, r, c) = k
                      IN  smem[b][smemLayout(r, c)]
                 ELSE d_D[k]]
    /\ written' = [written EXCEPT
                     ![b] = @ \cup {StoreTarget(b, r, c) : c \in StoredElems(b, r)}]
    /\ UNCHANGED <<hostVars, pc, lane_predicate, smem, mbarrier, tmaLoad,
                   opBy, opCount, armedBytes, txBytes>>

\* ------------------------------------------------------------------- Next
Next ==
    \/ Launch
    \/ LaunchRejected
    \/ Synchronize
    \/ SynchronizeFault
    \/ Verify
    \/ MakeTmaCopyAbort
    \/ \E b \in Blocks, t \in Threads : Elect(b, t)
    \/ \E b \in Blocks, t \in Threads : Prefetch(b, t)
    \/ \E b \in Blocks, t \in Threads : MbarrierInit(b, t)
    \/ \E b \in Blocks, t \in Threads : ArriveAndExpectTx(b, t)
    \/ \E b \in Blocks, t \in Threads : IssueLoad(b, t)
    \/ \E b \in Blocks, t \in Threads : Syncthreads(b, t)
    \/ \E b \in Blocks, t \in Threads : Wait(b, t)
    \/ \E b \in Blocks, t \in Threads : Fence(b, t)
    \/ \E b \in Blocks, t \in Threads : IssueStore(b, t)
    \/ \E b \in Blocks, r \in 0 .. TILE_M - 1 : TmaLoadRow(b, r)
    \/ \E b \in Blocks, r \in 0 .. TILE_M - 1 : TmaStoreRow(b, r)

Spec == Init /\ [][Next]_vars

\* ----------------------------------------------------------- properties
Launched(b) == pc[b][0] # "none"

\* The elected lane of warp 0 of block b.
ElectedOfWarp0(b) ==
    CHOOSE t \in Threads : t < WarpSize /\ lane_predicate[b][t]

EngineOps == {"prefetch", "init", "arm", "load", "store"}

TileBytes == SizeofElement * TILE_M * TILE_N

\* What the staging buffer of block b holds once its whole box has landed.
FullTile(b) ==
    [k \in 0 .. TILE_M * TILE_N - 1 |->
        LET gm == b[1] * TILE_M + (k \div TILE_N)
            gn == b[2] * TILE_N + (k % TILE_N)
        IN  IF gm < M /\ gn < N THEN d_S[gm * N + gn] ELSE 0]

\* The elements of the M x N array that lie in the tile of block b.
TileRegion(b) ==
    {gm * N + gn :
        gm \in {x \in b[1] * TILE_M .. b[1] * TILE_M + TILE_M - 1 : x < M},
        gn \in {y \in b[2] * TILE_N .. b[2] * TILE_N + TILE_N - 1 : y < N}}

\* The least k with k * b >= a.
Ceiling(a, b) == CHOOSE k \in 0 .. a : k * b >= a /\ (k - 1) * b < a

\* C1: whenever the host function returns 0, every element of the
\* destination equals the corresponding element of the source.
C1_RoundTripIdentity ==
    retval = <<0>> => \A k \in DOMAIN d_S : d_D[k] = d_S[k]

\* C2: in every block the elected thread's wait(0) has returned on a
\* completed phase before it fences, it has fenced before the store is
\* issued, and the store is never issued while a byte of the load is
\* outstanding.
C2_WaitFenceStore ==
    \A b \in Blocks : Launched(b) =>
        LET l == ElectedOfWarp0(b)
        IN  /\ l \in opBy[b]["wait"] =>
                  mbarrier[b].valid /\ mbarrier[b].phase # 0
            /\ l \in opBy[b]["fence"] => l \in opBy[b]["wait"]
            /\ opCount[b]["store"] > 0 =>
                  /\ l \in opBy[b]["fence"]
                  /\ opCount[b]["load"] > 0
                  /\ tmaLoad[b] = {}
                  /\ txBytes[b] = TileBytes

C2_Witness ==
    \E b \in Blocks :
        /\ opCount[b]["store"] = 1 /\ tmaStore[b] # {}
        /\ ElectedOfWarp0(b) \in opBy[b]["fence"]

\* C3: the barrier is initialized with arrival count 1 before it is armed,
\* it is armed before the load is issued, and no byte of the load is counted
\* on the barrier before the expected byte count has been set.
C3_InitArmLoad ==
    \A b \in Blocks : Launched(b) =>
        /\ opCount[b]["arm"] > 0 =>
              opCount[b]["init"] > 0 /\ mbarrier[b].expected = 1
        /\ opCount[b]["load"] > 0 => opCount[b]["arm"] > 0
        /\ txBytes[b] > 0 => armedBytes[b] > 0
        /\ mbarrier[b].tx >= 0

C3_Witness ==
    \E b \in Blocks :
        opCount[b]["load"] = 1 /\ tmaLoad[b] # {} /\ txBytes[b] > 0

\* C4 as stated: in every block the load is issued before the barrier is
\* armed.
C4_LoadBeforeArm ==
    \A b \in Blocks : Launched(b) =>
        (opCount[b]["arm"] > 0 => opCount[b]["load"] > 0)

\* C4 as amended: in every block the barrier is armed strictly before the
\* load is issued: the step that issues the load starts from a state in
\* which the barrier is armed, and the step that arms it from a state in
\* which no load has been issued.
C4_ArmBeforeLoad ==
    [][\A b \in Blocks :
          /\ opCount'[b]["load"] > opCount[b]["load"] =>
                opCount[b]["arm"] > 0 /\ opCount'[b]["arm"] = opCount[b]["arm"]
          /\ opCount'[b]["arm"] > opCount[b]["arm"] =>
                opCount[b]["load"] = 0 /\ opCount'[b]["load"] = 0]_vars

C4_Witness ==
    \E b \in Blocks : opCount[b]["arm"] = 1 /\ opCount[b]["load"] = 1

\* C5: in every block exactly one thread, the elected lane of warp 0,
\* performs the descriptor prefetch, the barrier init, the arm, the load
\* issue and the store issue, each at most once and exactly once by the end
\* of the block; every other thread only synchronizes, waits and fences.
C5_SingleIssuer ==
    \A b \in Blocks : Launched(b) =>
        LET l == ElectedOfWarp0(b)
        IN  /\ Cardinality({t \in Threads :
                   t \div WarpSize = 0 /\ lane_predicate[b][t]}) = 1
            /\ \A o \in EngineOps :
                   opCount[b][o] <= 1 /\ opBy[b][o] \subseteq {l}
            /\ (\A t \in Threads : pc[b][t] = "done") =>
                   \A o \in EngineOps :
                       opCount[b][o] = 1 /\ opBy[b][o] = {l}
            /\ \A t \in Threads \ {l} :
                   pc[b][t] \in {"elect", "prefetch", "sync", "wait", "fence", "done"}

C5_Witness ==
    \E b \in Blocks :
        /\ THREADS > WarpSize
        /\ \A t \in Threads : pc[b][t] = "done"
        /\ opCount[b]["store"] = 1

\* C6: in every block the barrier is initialized once, before it is armed,
\* it is armed once, and no thread is at or past wait(0) before the
\* elected thread has both initialized and armed it.
C6_BarrierUsage ==
    \A b \in Blocks : Launched(b) =>
        /\ opCount[b]["init"] <= 1
        /\ opCount[b]["arm"] <= 1
        /\ opCount[b]["arm"] = 1 => opCount[b]["init"] = 1
        /\ \A t \in Threads :
               pc[b][t] \in {"wait", "fence", "store", "done"} =>
                   /\ opCount[b]["init"] = 1
                   /\ opCount[b]["arm"] = 1
                   /\ mbarrier[b].valid

C6_Witness ==
    \E b \in Blocks : \E t \in Threads :
        t \div WarpSize > 0 /\ pc[b][t] = "wait" /\ tmaLoad[b] # {}

\* C7: the byte count armed on the barrier is sizeof(Element) * rows * cols
\* of the tile, the size of the staging storage and the number of bytes the
\* load signals, boundary tiles included; no thread returns from wait(0)
\* before the whole tile has landed in the staging buffer.
C7_TransactionBytes ==
    \A b \in Blocks : Launched(b) =>
        /\ opCount[b]["arm"] > 0 =>
              /\ armedBytes[b] = TileBytes
              /\ armedBytes[b] = SizeofElement * Cardinality(DOMAIN smem[b])
        /\ (opCount[b]["load"] > 0 /\ tmaLoad[b] = {}) =>
              txBytes[b] = armedBytes[b]
        /\ opBy[b]["wait"] # {} =>
              /\ opCount[b]["load"] = 1
              /\ tmaLoad[b] = {}
              /\ txBytes[b] = armedBytes[b]
              /\ smem[b] = FullTile(b)

C7_Witness ==
    \E b \in Blocks :
        /\ opBy[b]["wait"] # {}
        /\ (b[1] + 1) * TILE_M > M
        /\ TILE_M > 1

\* C8: the next launch, the read-back of the destination and the return of
\* 0 happen only after the device-wide synchronization of the launch
\* before: every block of the launched grid has ended and no load or store
\* is in flight; an accepted launch starts every block of the grid.
C8_SyncBeforeReadback ==
    /\ (hostPc \in {"launch", "verify"} \/ retval = <<0>>) =>
          \A b \in Blocks :
              /\ \A t \in Threads : pc[b][t] \in {"none", "done"}
              /\ tmaLoad[b] = {}
              /\ tmaStore[b] = {}
    /\ ((hostPc = "verify" \/ retval = <<0>>) /\ status = "kSuccess") =>
          \A b \in Blocks :
              /\ \A t \in Threads : pc[b][t] = "done"
              /\ opCount[b]["store"] = 1
    /\ (hostPc = "verify" \/ retval = <<0>>) => i = iterations
    /\ hostPc = "launch" => i < iterations
    /\ (hostPc = "sync" /\ status = "kSuccess") =>
          \A b \in Blocks : \A t \in Threads : pc[b][t] # "none"

C8_Witness ==
    /\ hostPc = "verify"
    /\ status = "kSuccess"
    /\ iterations > 1
    /\ \E b \in Blocks : written[b] # {}

\* The grid, the tile coordinates and the tiles of a plan are right: the
\* grid is Ceiling(m / tm) by Ceiling(n / tn), distinct blocks have distinct
\* tile coordinates, and every element of the array lies in the tile of
\* exactly one block.
PlanRight(m, n, tm, tn) ==
    LET gd == <<ceil_div(m, tm), ceil_div(n, tn)>>
        G == GridOf(gd)
        Tile(b) == {local_tile(<<tm, tn>>, blkCoord(b), r, c) :
                        r \in 0 .. tm - 1, c \in 0 .. tn - 1}
    IN  /\ gd = <<Ceiling(m, tm), Ceiling(n, tn)>>
        /\ Cardinality(G) = Ceiling(m, tm) * Ceiling(n, tn)
        /\ \A b1, b2 \in G : blkCoord(b1) = blkCoord(b2) => b1 = b2
        /\ \A b \in G : blkCoord(b) \in G
        /\ \A r \in 0 .. m - 1, c \in 0 .. n - 1 :
               Cardinality({b \in G : <<r, c>> \in Tile(b)}) = 1

\* Every plan within the bounds is right, and the two plans of the
\* concrete scenarios have 2 x 2 and 3 x 2 blocks.
PlansRight ==
    /\ \A m \in 1 .. MaxDim, n \in 1 .. MaxDim,
          tm \in 1 .. MaxTile, tn \in 1 .. MaxTile : PlanRight(m, n, tm, tn)
    /\ <<ceil_div(256, 128), ceil_div(256, 128)>> = <<2, 2>>
    /\ <<ceil_div(300, 128), ceil_div(200, 128)>> = <<3, 2>>

\* C9: the launch grid is ceil(R/tr) by ceil(C/tc) blocks (2 x 2 for
\* 256 x 256 and 3 x 2 for 300 x 200 with 128 x 128 tiles), the map from
\* grid position to tile coordinate is one-to-one and every element of the
\* array lies in the tile of exactly one block; for the grid of the launch
\* and for every shape and tile shape within the bounds.
C9_GridPlanner ==
    /\ (hostPc = "launch" /\ i = 0) => PlanRight(M, N, TILE_M, TILE_N)
    /\ gridDim = <<Ceiling(M, TILE_M), Ceiling(N, TILE_N)>>
    /\ Blocks = (0 .. Ceiling(M, TILE_M) - 1) \X (0 .. Ceiling(N, TILE_N) - 1)
    /\ DOMAIN pc = Blocks
    /\ PlansRight

C9_Witness ==
    /\ Cardinality(Blocks) > 1
    /\ (M % TILE_M # 0 \/ N % TILE_N # 0)
    /\ \A b \in Blocks : Launched(b)

\* C10: the sets of destination elements two distinct blocks of a launch
\* have written are disjoint, and a block writes only elements of its own
\* tile that lie inside the array.
C10_Disjointness ==
    /\ \A b1, b2 \in Blocks :
           b1 # b2 => written[b1] \cap written[b2] = {}
    /\ \A b \in Blocks :
           /\ written[b] \subseteq TileRegion(b)
           /\ written[b] \subseteq 0 .. M * N - 1
    /\ (hostPc = "launch" /\ i = 0) =>
           \A b1, b2 \in Blocks :
               b1 # b2 => TileRegion(b1) \cap TileRegion(b2) = {}

C10_Witness ==
    \E b1, b2 \in Blocks :
        /\ b1 # b2
        /\ written[b1] # {} /\ written[b2] # {}
        /\ (M % TILE_M # 0 \/ N % TILE_N # 0)
        /\ tmaStore[b1] # {}

AllDone == \A b \in Blocks : \A t \in Threads : pc[b][t] = "done"

\* C11: with iterations > 1 the destination the function ends with equals
\* the destination as the first iteration left it.
C11_Idempotence ==
    (retval = <<0>> /\ iterations > 1) => d_D = firstResult[1]

\* C12: with a dimension of 0 the function fails before any launch: no
\* launch is attempted and 0 is never returned.
C12_BoundaryRejection ==
    (M = 0 \/ N = 0) => (status = "none" /\ retval # <<0>>)

\* C13: once the device has rejected a launch the function neither goes on
\* to the next launch or to the verification nor returns 0.
C13_LaunchFault ==
    status = "kErrorInternal" =>
        (hostPc \notin {"launch", "verify"} /\ retval # <<0>>)

\* C14: a fault reported by the synchronization of an iteration writes one
\* diagnostic and ends the function with a non-zero value at once: no later
\* iteration is launched and nothing is verified; a non-zero value comes
\* with a diagnostic, and 0 is returned only after the synchronization of
\* every iteration has succeeded.
C14_RuntimeFault ==
    /\ cerr > 0 =>
          /\ cerr = 1
          /\ hostPc = "done"
          /\ retval = <<-1>>
          /\ i < iterations
          /\ good = 0 /\ bad = 0
          /\ \A k \in DOMAIN h_D : h_D[k] = 0
          /\ \A b \in Blocks : ~Launched(b)
    /\ retval = <<-1>> => cerr = 1
    /\ retval = <<0>> => (cerr = 0 /\ i = iterations)
    /\ hostPc = "done" => retval # <<>>

C14_Witness ==
    /\ cerr = 1
    /\ retval = <<-1>>
    /\ i = 1
    /\ d_D = d_S /\ M * N > 1

\* Steps of the threads of the launched grid and steps of the copy engine.
KernelStep ==
    \E b \in Blocks, t \in Threads :
        \/ Elect(b, t) \/ Prefetch(b, t) \/ MbarrierInit(b, t)
        \/ ArriveAndExpectTx(b, t) \/ IssueLoad(b, t) \/ Syncthreads(b, t)
        \/ Wait(b, t) \/ Fence(b, t) \/ IssueStore(b, t)

EngineStep ==
    \E b \in Blocks, r \in 0 .. TILE_M - 1 : TmaLoadRow(b, r) \/ TmaStoreRow(b, r)

\* The device does not stand still while a thread of the grid can take a
\* step or the copy engine has a transfer to carry out.
FairSpec == Spec /\ WF_vars(KernelStep \/ EngineStep)

\* C15: every accepted launch leads to a state in which every thread of
\* every block is done, unless the device reports a fault.
C15_Termination ==
    (hostPc = "sync" /\ status = "kSuccess") ~> (AllDone \/ retval = <<-1>>)

C15_Witness ==
    /\ AllDone
    /\ THREADS > WarpSize
    /\ M < TILE_M

\* The elected thread of block b has run elect_one_sync().
LeaderElected(b) == ElectedOfWarp0(b) \in opBy[b]["elect"]

\* What C16 says of the stages after the first two: barrier init, arm and
\* load, then the barrier, the wait, the fence, the store and the end, each
\* once per thread that performs it.
LaterStagesInOrder(b) ==
    LET l == ElectedOfWarp0(b)
    IN  /\ opCount[b]["arm"] > 0 => opCount[b]["init"] > 0
        /\ opCount[b]["load"] > 0 => opCount[b]["arm"] > 0
        /\ \A t \in Threads :
               /\ pc[b][t] \notin BeforeSync \cup {"sync"} =>
                      opCount[b]["load"] > 0
               /\ t \in opBy[b]["fence"] => t \in opBy[b]["wait"]
               /\ pc[b][t] = "done" => t \in opBy[b]["fence"]
        /\ opCount[b]["store"] > 0 => l \in opBy[b]["fence"]
        /\ pc[b][l] = "done" => opCount[b]["store"] > 0
        /\ \A o \in Ops : opCount[b][o] = Cardinality(opBy[b][o])

\* C16 as stated: in every block the descriptor prefetch comes before the
\* leader election, the leader election before the barrier init, arm and
\* load, and the later stages follow in order, each once.
C16_PrefetchThenElection ==
    \A b \in Blocks : Launched(b) =>
        /\ LeaderElected(b) => opCount[b]["prefetch"] > 0
        /\ opCount[b]["init"] > 0 => LeaderElected(b)
        /\ LaterStagesInOrder(b)

\* C16 as amended: in every block the leader election comes before the
\* descriptor prefetch, the descriptor prefetch before the barrier init,
\* arm and load, and the later stages follow in order, each once.
C16_ElectionThenPrefetch ==
    \A b \in Blocks : Launched(b) =>
        /\ opCount[b]["prefetch"] > 0 => LeaderElected(b)
        /\ opCount[b]["init"] > 0 => opCount[b]["prefetch"] > 0
        /\ LaterStagesInOrder(b)

C16_Witness ==
    /\ AllDone
    /\ THREADS > 1
    /\ \A b \in Blocks :
           /\ opCount[b]["prefetch"] = 1
           /\ opCount[b]["store"] = 1
           /\ opCount[b]["elect"] = THREADS

\* C17: no step writes the source, on the device or on the host, and no
\* step changes the shapes and tile shapes the copy plan was built from.
C17_Frame ==
    [][/\ d_S' = d_S
       /\ h_S' = h_S
       /\ <<M, N, TILE_M, TILE_N, THREADS>>' = <<M, N, TILE_M, TILE_N, THREADS>>]_vars

C17_Witness ==
    /\ retval = <<0>>
    /\ \E k \in DOMAIN d_D : d_D[k] # 0
    /\ \E b \in Blocks : smem[b] = FullTile(b)

C19_StagingLifetime ==
    \A b \in Blocks : (\A t \in Threads : pc[b][t] = "done") => tmaStore[b] = {}

====
